---- MODULE Spec2Model ----
(***************************************************************************)
(* Model of the serde adapters of http-serde-ex: header_map, status_code   *)
(* and the option lifter (src/src/lib.rs, src/src/option.rs).              *)
(*                                                                         *)
(* Byte strings and text strings are sequences of byte codes 0..255.       *)
(* A serialization tree node is a record with a "kind" field.              *)
(***************************************************************************)
EXTENDS Integers, Sequences, FiniteSets, TLC

VARIABLES
    pc,         \* position of the modelled call chain
    headers,    \* the HeaderMap handed to header_map::serialize
    hr,         \* is_human_readable() of the serializer
    out,        \* the node the serializer produced
    dhr,        \* is_human_readable() of the deserializer
    foreign,    \* TRUE when the decoded document comes from the driver, not from out
    pending,    \* map entries of out the driver has not yet delivered
    delivered,  \* map entries next_entry has delivered so far
    map,        \* the local `map` of HeaderMapVisitor::visit_map
    result,     \* the Result a deserialize call returned
    status,     \* the StatusCode handed to status_code::serialize, 0 before
    adapter,    \* the module of option:: in use, "header_map" or "status_code"
    optval,     \* the Option<T> handed to option::<type>::serialize
    signal      \* the Visitor method the driver called, with its argument

vars == <<pc, headers, hr, out, dhr, foreign, pending, delivered, map, result,
          status, adapter, optval, signal>>

(***************************************************************************)
(* Bounds                                                                  *)
(***************************************************************************)
MaxValues == 3      \* values held by the HeaderMap that is serialized
MaxEntries == 3     \* map entries a driver-made document delivers
MaxWrap == 1        \* status integers range over -MaxWrap..MaxWrap times 2^16

(***************************************************************************)
(* Sequence helpers                                                        *)
(***************************************************************************)
RECURSIVE SelectSeqBy(_, _)
\* The subsequence of s whose elements are in the set keep.
SelectSeqBy(s, keep) ==
    IF s = <<>> THEN <<>>
    ELSE IF Head(s) \in keep
         THEN <<Head(s)>> \o SelectSeqBy(Tail(s), keep)
         ELSE SelectSeqBy(Tail(s), keep)

(***************************************************************************)
(* Tree nodes                                                              *)
(***************************************************************************)
StrNode(s) == [kind |-> "str", val |-> s]
BytesNode(b) == [kind |-> "bytes", val |-> b]
\* hint is <<>> for a sequence begun without a length, <<n>> for Some(n)
SeqNode(hint, items) == [kind |-> "seq", hint |-> hint, items |-> items]
MapNode(entries) == [kind |-> "map", entries |-> entries]
U16Node(n) == [kind |-> "u16", val |-> n]
NoneNode == [kind |-> "none"]
IntNode(n) == [kind |-> "int", val |-> n]

Ok(v) == [ok |-> TRUE, val |-> v]
InvalidValue(unexp) == [ok |-> FALSE, err |-> "invalid_value", unexp |-> unexp]
InvalidType(unexp) == [ok |-> FALSE, err |-> "invalid_type", unexp |-> unexp]
ShapeError(node) == [ok |-> FALSE, err |-> "shape", unexp |-> node]
NoResult == [ok |-> FALSE, err |-> "pending", unexp |-> NoneNode]

(***************************************************************************)
(* The http crate's types, as the adapter uses them                        *)
(***************************************************************************)
\* HeaderName::from_bytes lowercases ASCII upper-case letters.
ToLower(c) == IF c \in 65..90 THEN c + 32 ELSE c

\* A byte of the header-name token grammar (tchar of RFC 7230).
IsTchar(c) ==
    \/ c \in 48..57
    \/ c \in 65..90
    \/ c \in 97..122
    \/ c \in {33, 35, 36, 37, 38, 39, 42, 43, 45, 46, 94, 95, 96, 124, 126}

\* HeaderName::from_bytes(key.as_bytes()): the lower-cased name, or an error.
HeaderName_from_bytes(key) ==
    IF key # <<>> /\ \A i \in DOMAIN key : IsTchar(key[i])
    THEN Ok([i \in DOMAIN key |-> ToLower(key[i])])
    ELSE [ok |-> FALSE]

\* HeaderValue::from_bytes(val): any byte but a control other than tab.
HeaderValue_from_bytes(val) ==
    IF \A i \in DOMAIN val : (val[i] >= 32 /\ val[i] # 127) \/ val[i] = 9
    THEN Ok(val)
    ELSE [ok |-> FALSE]

\* val.parse::<HeaderValue>() of a text string: its bytes, validated alike.
HeaderValue_parse(s) == HeaderValue_from_bytes(s)

\* HeaderValue::to_str(): the text of a value made of visible ASCII and tab.
HeaderValue_to_str(v) ==
    IF \A i \in DOMAIN v : (v[i] >= 32 /\ v[i] < 127) \/ v[i] = 9
    THEN Ok(v)
    ELSE [ok |-> FALSE]

\* A HeaderMap is the sequence of its buckets, in the order the names were
\* first added: [name |-> lower-case name, values |-> its values in order].
HeaderMap_new == <<>>

HeaderMap_find(m, name) ==
    IF \E i \in DOMAIN m : m[i].name = name
    THEN CHOOSE i \in DOMAIN m : m[i].name = name
    ELSE 0

\* map.append(&key, val): val joins the values the name already has.
HeaderMap_append(m, name, val) ==
    LET i == HeaderMap_find(m, name) IN
    IF i = 0 THEN Append(m, [name |-> name, values |-> <<val>>])
    ELSE [m EXCEPT ![i].values = Append(@, val)]

\* The mutant of HeaderMap_insert that keeps the earlier values.
HeaderMap_insert_keeping(m, name, val) ==
    LET i == HeaderMap_find(m, name) IN
    IF i = 0 THEN Append(m, [name |-> name, values |-> <<val>>])
    ELSE [m EXCEPT ![i].values = Append(@, val)]

\* map.insert(key, val): val becomes the only value of the name.
HeaderMap_insert(m, name, val) ==
    LET i == HeaderMap_find(m, name) IN
    IF i = 0 THEN Append(m, [name |-> name, values |-> <<val>>])
    ELSE [m EXCEPT ![i].values = <<val>>]

\* headers.keys(): each distinct name once, in bucket order.
HeaderMap_keys(m) == [i \in DOMAIN m |-> m[i].name]

\* headers.get_all(k).iter(): the values of the name, in order.
HeaderMap_get_all(m, name) ==
    LET i == HeaderMap_find(m, name) IN
    IF i = 0 THEN <<>> ELSE m[i].values

RECURSIVE HeaderMap_len(_)
\* headers.len(): the number of values held.
HeaderMap_len(m) ==
    IF m = <<>> THEN 0 ELSE Len(Head(m).values) + HeaderMap_len(Tail(m))

(***************************************************************************)
(* header_map::serialize                                                   *)
(***************************************************************************)
RECURSIVE TextItems(_)
\* self.0.iter().filter_map(|v| v.to_str().ok()), each collected as a string
TextItems(vals) ==
    IF vals = <<>> THEN <<>>
    ELSE LET s == HeaderValue_to_str(Head(vals)) IN
         IF s.ok THEN <<StrNode(s.val)>> \o TextItems(Tail(vals))
         ELSE TextItems(Tail(vals))

\* The mutant of ToSeq_serialize that fails on a value that is not text.
ToSeq_serialize_text_only(vals, human) ==
    IF ~human
    THEN SeqNode(<<Len(vals)>>, [i \in DOMAIN vals |-> BytesNode(vals[i])])
    ELSE IF \E i \in DOMAIN vals : ~HeaderValue_to_str(vals[i]).ok
    THEN [kind |-> "error"]
    ELSE IF Len(vals) = 1
    THEN StrNode(HeaderValue_to_str(vals[1]).val)
    ELSE SeqNode(<<>>, TextItems(vals))

\* The mutant of ToSeq_serialize that always writes a sequence.
ToSeq_serialize_always_seq(vals, human) ==
    IF human THEN SeqNode(<<>>, TextItems(vals))
    ELSE SeqNode(<<Len(vals)>>, [i \in DOMAIN vals |-> BytesNode(vals[i])])

\* The mutant of ToSeq_serialize that takes the text path in every format.
ToSeq_serialize_ignoring_format(vals, human) ==
    IF Len(vals) = 1 /\ HeaderValue_to_str(vals[1]).ok
    THEN StrNode(HeaderValue_to_str(vals[1]).val)
    ELSE SeqNode(<<>>, TextItems(vals))

\* <ToSeq as Serialize>::serialize
ToSeq_serialize(vals, human) ==
    LET count == Len(vals) IN
    IF human
    THEN IF count = 1 /\ HeaderValue_to_str(vals[1]).ok
         THEN StrNode(HeaderValue_to_str(vals[1]).val)
         ELSE SeqNode(<<>>, TextItems(vals))
    ELSE SeqNode(<<count>>, [i \in DOMAIN vals |-> BytesNode(vals[i])])

RECURSIVE PerValueEntries(_, _)
\* One map entry for every (name, value) pair of headers.iter().
PerValueEntries(h, human) ==
    IF h = <<>> THEN <<>>
    ELSE [j \in DOMAIN Head(h).values |->
             [key |-> Head(h).name,
              val |-> ToSeq_serialize(<<Head(h).values[j]>>, human)]]
         \o PerValueEntries(Tail(h), human)

\* The mutant of header_map_serialize that walks headers.iter(), not keys().
header_map_serialize_per_value(h, human) == MapNode(PerValueEntries(h, human))

\* header_map::serialize: collect_map over headers.keys()
header_map_serialize(h, human) ==
    MapNode([i \in DOMAIN HeaderMap_keys(h) |->
                [key |-> HeaderMap_keys(h)[i],
                 val |-> ToSeq_serialize(HeaderMap_get_all(h, HeaderMap_keys(h)[i]),
                                         human)]])

(***************************************************************************)
(* header_map::deserialize                                                 *)
(***************************************************************************)
\* The mutant of OneOrMore without the Bytes variant.
OneOrMore_without_bytes(node) ==
    IF node.kind = "str"
    THEN [ok |-> TRUE, variant |-> "One", arr |-> <<node.val>>]
    ELSE IF node.kind = "seq" /\ \A i \in DOMAIN node.items : node.items[i].kind = "str"
    THEN [ok |-> TRUE, variant |-> "Strings",
          arr |-> [i \in DOMAIN node.items |-> node.items[i].val]]
    ELSE [ok |-> FALSE]

\* #[serde(untagged)] enum OneOrMore: the first variant, in declaration
\* order, that the node fits.
OneOrMore(node) ==
    IF node.kind = "str"
    THEN [ok |-> TRUE, variant |-> "One", arr |-> <<node.val>>]
    ELSE IF node.kind = "seq" /\ \A i \in DOMAIN node.items : node.items[i].kind = "str"
    THEN [ok |-> TRUE, variant |-> "Strings",
          arr |-> [i \in DOMAIN node.items |-> node.items[i].val]]
    ELSE IF node.kind = "seq" /\ \A i \in DOMAIN node.items : node.items[i].kind = "bytes"
    THEN [ok |-> TRUE, variant |-> "Bytes",
          arr |-> [i \in DOMAIN node.items |-> node.items[i].val]]
    ELSE [ok |-> FALSE]

\* The value type of the binary path, Vec<&[u8]>: a sequence of byte arrays.
VecOfBytes(node) ==
    IF node.kind = "seq" /\ \A i \in DOMAIN node.items : node.items[i].kind = "bytes"
    THEN [ok |-> TRUE, variant |-> "Bytes",
          arr |-> [i \in DOMAIN node.items |-> node.items[i].val]]
    ELSE [ok |-> FALSE]

\* access.next_entry::<Cow<str>, V>(): the entry's value read as the type the
\* mode asks for.
next_entry(entry, human) ==
    IF human THEN OneOrMore(entry.val) ELSE VecOfBytes(entry.val)

RECURSIVE AppendEach_inserting(_, _, _, _)
\* The mutant of the value loops that calls map.insert for each value.
AppendEach_inserting(m, name, arr, text) ==
    IF arr = <<>> THEN [ok |-> TRUE, map |-> m]
    ELSE LET val == IF text THEN HeaderValue_parse(Head(arr))
                    ELSE HeaderValue_from_bytes(Head(arr))
         IN  IF ~val.ok
             THEN [ok |-> FALSE, map |-> m,
                   error |-> InvalidValue(IF text THEN StrNode(Head(arr))
                                          ELSE BytesNode(Head(arr)))]
             ELSE AppendEach_inserting(HeaderMap_insert(m, name, val.val), name,
                                       Tail(arr), text)

RECURSIVE AppendEach_skipping(_, _, _, _)
\* The mutant of the value loops that drops a value it cannot parse.
AppendEach_skipping(m, name, arr, text) ==
    IF arr = <<>> THEN [ok |-> TRUE, map |-> m]
    ELSE LET val == IF text THEN HeaderValue_parse(Head(arr))
                    ELSE HeaderValue_from_bytes(Head(arr))
         IN  IF ~val.ok
             THEN AppendEach_skipping(m, name, Tail(arr), text)
             ELSE AppendEach_skipping(HeaderMap_append(m, name, val.val), name,
                                      Tail(arr), text)

RECURSIVE AppendEach(_, _, _, _)
\* for val in arr { let val = ...?; map.append(&key, val); }
\* The record holds the map as the loop left it and, on failure, the value
\* that was rejected.
AppendEach(m, name, arr, text) ==
    IF arr = <<>> THEN [ok |-> TRUE, map |-> m]
    ELSE LET val == IF text THEN HeaderValue_parse(Head(arr))
                    ELSE HeaderValue_from_bytes(Head(arr))
         IN  IF ~val.ok
             THEN [ok |-> FALSE, map |-> m,
                   error |-> InvalidValue(IF text THEN StrNode(Head(arr))
                                          ELSE BytesNode(Head(arr)))]
             ELSE AppendEach(HeaderMap_append(m, name, val.val), name, Tail(arr), text)

\* The mutant of visit_entry that skips what it cannot parse.
visit_entry_lenient(m, entry, human) ==
    LET typed == next_entry(entry, human)
        key == HeaderName_from_bytes(entry.key)
    IN  IF ~typed.ok THEN [ok |-> FALSE, map |-> m, error |-> ShapeError(entry.val)]
        ELSE IF ~key.ok THEN [ok |-> TRUE, map |-> m]
        ELSE AppendEach_skipping(m, key.val, typed.arr, typed.variant # "Bytes")

\* One iteration of the `while let Some((key, val)) = access.next_entry()?`
\* loops of HeaderMapVisitor::visit_map, for either mode.
visit_entry(m, entry, human) ==
    LET typed == next_entry(entry, human)
        key == HeaderName_from_bytes(entry.key)
    IN  IF ~typed.ok THEN [ok |-> FALSE, map |-> m, error |-> ShapeError(entry.val)]
        ELSE IF ~key.ok
        THEN [ok |-> FALSE, map |-> m, error |-> InvalidValue(StrNode(entry.key))]
        ELSE IF typed.variant = "One"
        THEN LET val == HeaderValue_parse(typed.arr[1]) IN
             IF ~val.ok
             THEN [ok |-> FALSE, map |-> m,
                   error |-> InvalidValue(StrNode(typed.arr[1]))]
             ELSE [ok |-> TRUE, map |-> HeaderMap_insert(m, key.val, val.val)]
        ELSE AppendEach(m, key.val, typed.arr, typed.variant = "Strings")

RECURSIVE HeaderMapVisitor_visit_map(_, _, _)
\* HeaderMapVisitor::visit_map over the entries of a whole map, starting
\* from the map m: Ok(map), or the first error.
HeaderMapVisitor_visit_map(m, entries, human) ==
    IF entries = <<>> THEN Ok(m)
    ELSE LET step == visit_entry(m, Head(entries), human) IN
         IF step.ok THEN HeaderMapVisitor_visit_map(step.map, Tail(entries), human)
         ELSE step.error

(***************************************************************************)
(* status_code                                                             *)
(***************************************************************************)
UnsignedNode(n) == [kind |-> "unsigned", val |-> n]

\* status_code::serialize: ser.serialize_u16(status.as_u16())
status_code_serialize(code) == U16Node(code)

\* `val as u16`: the low 16 bits of an integer of any width.
AsU16(val) == val % 65536

\* StatusVisitor::visit_u16: StatusCode::from_u16(val), or invalid_value
\* carrying Unexpected::Unsigned(val).
StatusVisitor_visit_u16(val) ==
    IF val >= 100 /\ val < 1000 THEN Ok(val)
    ELSE InvalidValue(UnsignedNode(val))

\* The mutant of StatusVisitor_visit that rejects what does not fit 16 bits.
StatusVisitor_visit_checked(method, val) ==
    IF val \in 0..65535 THEN StatusVisitor_visit_u16(val)
    ELSE InvalidValue(IntNode(val))

\* The visit_* methods of StatusVisitor: each narrows with `as u16` and
\* calls visit_u16. visit_i8 is not overridden; the trait forwards it to
\* visit_i64. Any other method is the trait's invalid_type.
StatusVisitor_visit(method, val) ==
    CASE method = "visit_u16" -> StatusVisitor_visit_u16(val)
      [] method \in {"visit_i32", "visit_i16", "visit_u8", "visit_u32",
                     "visit_i64", "visit_u64", "visit_i8"}
            -> StatusVisitor_visit_u16(AsU16(val))
      [] OTHER -> InvalidType([kind |-> method])

\* The integers the method's type holds, within the range the model draws.
InType(method, val) ==
    CASE method = "visit_u8" -> val \in 0..255
      [] method = "visit_i8" -> val \in -128..127
      [] method = "visit_u16" -> val \in 0..65535
      [] method = "visit_i16" -> val \in -32768..32767
      [] method \in {"visit_u32", "visit_u64"} -> val >= 0
      [] OTHER -> TRUE

IntMethods == {"visit_i8", "visit_u8", "visit_i16", "visit_u16",
               "visit_i32", "visit_u32", "visit_i64", "visit_u64"}

\* status_code::deserialize on a node: de.deserialize_u16(StatusVisitor),
\* the driver calling the method of the node's kind.
status_code_deserialize(node) ==
    IF node.kind = "u16" THEN StatusVisitor_visit("visit_u16", node.val)
    ELSE IF node.kind = "int" THEN StatusVisitor_visit("visit_i64", node.val)
    ELSE InvalidType(node)

\* header_map::deserialize on a node: de.deserialize_map(HeaderMapVisitor).
header_map_deserialize(node, human) ==
    IF node.kind = "map"
    THEN HeaderMapVisitor_visit_map(HeaderMap_new, node.entries, human)
    ELSE InvalidType(node)

(***************************************************************************)
(* option                                                                  *)
(***************************************************************************)
None == [some |-> FALSE]
Some(v) == [some |-> TRUE, val |-> v]

\* crate::$name::serialize(v, ser)
inner_serialize(name, v, human) ==
    IF name = "header_map" THEN header_map_serialize(v, human)
    ELSE status_code_serialize(v)

\* The mutant of option_serialize that wraps a present value in a node.
option_serialize_wrapping(name, v, human) ==
    IF v.some THEN [kind |-> "some", val |-> inner_serialize(name, v.val, human)]
    ELSE NoneNode

\* option::$name::serialize
option_serialize(name, v, human) ==
    IF v.some THEN inner_serialize(name, v.val, human)
    ELSE NoneNode

\* `.map(|v| Some(v))` on the inner visitor's result
MapSome(r) == IF r.ok THEN Ok(Some(r.val)) ELSE r

\* OptionVisitor(V): visit_map and the methods impl_visit! writes hand the
\* argument to the inner visitor; every other method, visit_none, visit_some
\* and visit_unit among them, is the trait's default, an invalid_type error.
OptionVisitor_visit(name, human, sig) ==
    IF sig.visit = "visit_map"
    THEN IF name = "header_map"
         THEN MapSome(HeaderMapVisitor_visit_map(HeaderMap_new, sig.arg, human))
         ELSE InvalidType([kind |-> "map"])
    ELSE IF sig.visit \in {"visit_i32", "visit_i16", "visit_u8", "visit_u32",
                           "visit_i64", "visit_u64", "visit_u16"}
    THEN IF name = "status_code"
         THEN MapSome(StatusVisitor_visit(sig.visit, sig.arg))
         ELSE InvalidType([kind |-> "int"])
    ELSE IF sig.visit \in {"visit_str", "visit_string"}
    THEN InvalidType([kind |-> "str"])
    ELSE IF sig.visit = "visit_unit"
    THEN InvalidType([kind |-> "unit"])
    ELSE InvalidType([kind |-> "option"])

\* option::$name::deserialize: de.deserialize_option(OptionVisitor(...))
option_deserialize(name, human, sig) == OptionVisitor_visit(name, human, sig)

(***************************************************************************)
(* Inputs                                                                  *)
(***************************************************************************)
\* Header names "a" and "b"; values "x", "y" and the opaque value x \xE9.
SrcNames == {<<97>>, <<98>>}
SrcValues == {<<120>>, <<121>>, <<120, 233>>}

\* Map keys a driver delivers: "a", "A", "b" and the illegal "a ".
DriverKeys == {<<97>>, <<65>>, <<98>>, <<97, 32>>}

\* Map values a driver delivers: bare strings, sequences of strings, of byte
\* arrays and of both, and an integer. Strings are ASCII; "\n" is no legal
\* header value.
DriverNodes ==
    { StrNode(<<120>>), StrNode(<<121>>), StrNode(<<10>>),
      SeqNode(<<>>, <<>>),
      SeqNode(<<>>, <<StrNode(<<120>>)>>),
      SeqNode(<<>>, <<StrNode(<<120>>), StrNode(<<121>>)>>),
      SeqNode(<<>>, <<StrNode(<<120>>), StrNode(<<10>>)>>),
      SeqNode(<<>>, <<BytesNode(<<120>>)>>),
      SeqNode(<<>>, <<BytesNode(<<120, 233>>), BytesNode(<<120>>)>>),
      SeqNode(<<>>, <<BytesNode(<<10>>)>>),
      SeqNode(<<>>, <<StrNode(<<120>>), BytesNode(<<120>>)>>),
      IntNode(7) }

DriverEntries == {[key |-> k, val |-> n] : k \in DriverKeys, n \in DriverNodes}

(***************************************************************************)
(* State machine of the header map adapter                                 *)
(***************************************************************************)
Init ==
    /\ pc = "build"
    /\ headers = HeaderMap_new
    /\ hr = FALSE
    /\ out = [kind |-> "unset"]
    /\ dhr = FALSE
    /\ foreign = FALSE
    /\ pending = <<>>
    /\ delivered = <<>>
    /\ map = HeaderMap_new
    /\ result = NoResult
    /\ status = 0
    /\ adapter = "unset"
    /\ optval = [some |-> FALSE]
    /\ signal = [visit |-> "unset"]

\* The caller fills the collection: map.append(name, value).
HeaderAppend(name, val) ==
    /\ pc = "build"
    /\ HeaderMap_len(headers) < MaxValues
    /\ headers' = HeaderMap_append(headers, name, val)
    /\ UNCHANGED <<pc, hr, out, dhr, foreign, pending, delivered, map, result,
                   status, adapter, optval, signal>>

\* The caller fills the collection: map.insert(name, value).
HeaderInsert(name, val) ==
    /\ pc = "build"
    /\ HeaderMap_len(headers) < MaxValues
    /\ headers' = HeaderMap_insert(headers, name, val)
    /\ UNCHANGED <<pc, hr, out, dhr, foreign, pending, delivered, map, result,
                   status, adapter, optval, signal>>

\* header_map::serialize(&headers, ser)
Serialize(human) ==
    /\ pc = "build"
    /\ hr' = human
    /\ out' = header_map_serialize(headers, human)
    /\ pc' = "encoded"
    /\ UNCHANGED <<headers, dhr, foreign, pending, delivered, map, result,
                   status, adapter, optval, signal>>

\* header_map::deserialize(de) on the document just written: the flag is
\* read once and visit_map allocates the map.
DeserializeEncoded(human) ==
    /\ pc = "encoded"
    /\ dhr' = human
    /\ foreign' = FALSE
    /\ pending' = out.entries
    /\ delivered' = <<>>
    /\ map' = HeaderMap_new
    /\ pc' = "decoding"
    /\ UNCHANGED <<headers, hr, out, result, status, adapter, optval, signal>>

\* header_map::deserialize(de) on a document of the driver's own.
DeserializeForeign(human) ==
    /\ pc = "build"
    /\ headers = HeaderMap_new
    /\ dhr' = human
    /\ foreign' = TRUE
    /\ pending' = <<>>
    /\ delivered' = <<>>
    /\ map' = HeaderMap_new
    /\ pc' = "decoding"
    /\ UNCHANGED <<headers, hr, out, result, status, adapter, optval, signal>>

\* One iteration of the visit_map loop on the entry the driver delivers.
Visit(entry) ==
    LET step == visit_entry(map, entry, dhr) IN
    /\ delivered' = Append(delivered, entry)
    /\ map' = step.map
    /\ IF step.ok
       THEN UNCHANGED <<pc, result>>
       ELSE pc' = "done" /\ result' = step.error
    /\ UNCHANGED <<headers, hr, out, dhr, foreign, status, adapter, optval, signal>>

NextEntryEncoded ==
    /\ pc = "decoding"
    /\ ~foreign
    /\ pending # <<>>
    /\ pending' = Tail(pending)
    /\ Visit(Head(pending))

NextEntryForeign(entry) ==
    /\ pc = "decoding"
    /\ foreign
    /\ Len(delivered) < MaxEntries
    /\ UNCHANGED pending
    /\ Visit(entry)

\* next_entry returns None: visit_map returns Ok(map).
EndOfMap ==
    /\ pc = "decoding"
    /\ foreign \/ pending = <<>>
    /\ result' = Ok(map)
    /\ pc' = "done"
    /\ UNCHANGED <<headers, hr, out, dhr, foreign, pending, delivered, map,
                   status, adapter, optval, signal>>

Next ==
    \/ \E name \in SrcNames, val \in SrcValues : HeaderAppend(name, val)
    \/ \E name \in SrcNames, val \in SrcValues : HeaderInsert(name, val)
    \/ \E human \in BOOLEAN : Serialize(human)
    \/ \E human \in BOOLEAN : DeserializeEncoded(human)
    \/ \E human \in BOOLEAN : DeserializeForeign(human)
    \/ NextEntryEncoded
    \/ \E entry \in DriverEntries : NextEntryForeign(entry)
    \/ EndOfMap

Spec == Init /\ [][Next]_vars

(***************************************************************************)
(* State machine of the status code adapter                                *)
(***************************************************************************)
\* The integers a driver hands to StatusVisitor: the low 16 bits range over
\* the neighbourhoods of 0, 100, 1000, 2^15 and 2^16, the rest over
\* -MaxWrap..MaxWrap.
StatusResidues == (0..1023) \cup {32767, 32768} \cup (65436..65535)
StatusInputs == {k * 65536 + r : k \in -MaxWrap..MaxWrap, r \in StatusResidues}

\* status_code::serialize(&status, ser)
StatusSerialize(code) ==
    /\ pc = "build"
    /\ status' = code
    /\ out' = status_code_serialize(code)
    /\ pc' = "status_encoded"
    /\ UNCHANGED <<headers, hr, dhr, foreign, pending, delivered, map, result,
                   adapter, optval, signal>>

\* status_code::deserialize(de) on the integer just written, which the
\* driver hands over as a u16 or widened to u64.
StatusDeserializeEncoded(method) ==
    /\ pc = "status_encoded"
    /\ signal' = [visit |-> method, arg |-> out.val]
    /\ result' = StatusVisitor_visit(method, out.val)
    /\ pc' = "status_done"
    /\ UNCHANGED <<headers, hr, out, dhr, foreign, pending, delivered, map,
                   status, adapter, optval>>

\* status_code::deserialize(de) on an integer of the driver's own.
StatusDeserialize(method, val) ==
    /\ pc = "build"
    /\ InType(method, val)
    /\ signal' = [visit |-> method, arg |-> val]
    /\ result' = StatusVisitor_visit(method, val)
    /\ pc' = "status_done"
    /\ UNCHANGED <<headers, hr, out, dhr, foreign, pending, delivered, map,
                   status, adapter, optval>>

NextStatus ==
    \/ \E code \in 100..999 : StatusSerialize(code)
    \/ \E method \in {"visit_u16", "visit_u64"} : StatusDeserializeEncoded(method)
    \/ \E method \in IntMethods, val \in StatusInputs : StatusDeserialize(method, val)

SpecStatus == Init /\ [][NextStatus]_vars

(***************************************************************************)
(* State machine of the option lifter                                      *)
(***************************************************************************)
\* What a driver may hold where an Option<T> is expected.
OptionDocs == {<<>>} \cup {<<e>> : e \in DriverEntries}
OptionInts == {0, 99, 100, 200, 999, 1000}
OptionNodes ==
    {U16Node(n) : n \in OptionInts} \cup {MapNode(doc) : doc \in OptionDocs}
    \cup {StrNode(<<120>>)}

\* crate::$name::deserialize on the node
inner_deserialize(name, node, human) ==
    IF name = "header_map" THEN header_map_deserialize(node, human)
    ELSE status_code_deserialize(node)

\* option::header_map::serialize(&v, ser), v being None or the collection
OptionSerializeHeaderMap(present, human) ==
    /\ pc = "build"
    /\ adapter' = "header_map"
    /\ optval' = IF present THEN Some(headers) ELSE None
    /\ hr' = human
    /\ out' = option_serialize("header_map", optval', human)
    /\ pc' = "opt_encoded"
    /\ UNCHANGED <<headers, dhr, foreign, pending, delivered, map, result,
                   status, signal>>

\* option::status_code::serialize(&v, ser)
OptionSerializeStatusCode(v, human) ==
    /\ pc = "build"
    /\ headers = HeaderMap_new
    /\ adapter' = "status_code"
    /\ optval' = v
    /\ hr' = human
    /\ out' = option_serialize("status_code", v, human)
    /\ pc' = "opt_encoded"
    /\ UNCHANGED <<headers, dhr, foreign, pending, delivered, map, result,
                   status, signal>>

\* The call the driver's deserialize_option makes on the visitor, and what
\* option::$name::deserialize returns for it.
OptionDeserialize(name, human, sig) ==
    /\ adapter' = name
    /\ dhr' = human
    /\ signal' = sig
    /\ result' = option_deserialize(name, human, sig)
    /\ pc' = "opt_done"
    /\ UNCHANGED <<headers, hr, out, foreign, pending, delivered, map, status,
                   optval>>

\* Decoding the document just written, in the same format: the driver
\* reports the absence marker as none and anything else as some.
OptionDeserializeEncoded ==
    /\ pc = "opt_encoded"
    /\ OptionDeserialize(adapter, hr,
                         IF out = NoneNode
                         THEN [visit |-> "visit_none", arg |-> NoneNode]
                         ELSE [visit |-> "visit_some", arg |-> out])

\* The driver finds no value: visit_none, or visit_unit in some formats.
OptionDeserializeAbsent(name, human, method) ==
    /\ pc = "build" /\ headers = HeaderMap_new
    /\ OptionDeserialize(name, human, [visit |-> method, arg |-> NoneNode])

\* The driver finds a value: visit_some, carrying the node.
OptionDeserializePresent(name, human, node) ==
    /\ pc = "build" /\ headers = HeaderMap_new
    /\ OptionDeserialize(name, human, [visit |-> "visit_some", arg |-> node])

\* A driver that takes deserialize_option as a hint and hands the integer
\* straight to the visitor.
OptionDeserializeInt(name, human, method, val) ==
    /\ pc = "build" /\ headers = HeaderMap_new
    /\ OptionDeserialize(name, human, [visit |-> method, arg |-> val])

\* A driver that hands the map straight to the visitor.
OptionDeserializeMap(name, human, doc) ==
    /\ pc = "build" /\ headers = HeaderMap_new
    /\ OptionDeserialize(name, human, [visit |-> "visit_map", arg |-> doc])

\* A driver that hands a string straight to the visitor.
OptionDeserializeStr(name, human) ==
    /\ pc = "build" /\ headers = HeaderMap_new
    /\ OptionDeserialize(name, human, [visit |-> "visit_str", arg |-> <<120>>])

OptionAdapters == {"header_map", "status_code"}

NextOption ==
    \/ \E name \in SrcNames, val \in SrcValues : HeaderAppend(name, val)
    \/ \E present \in BOOLEAN, human \in BOOLEAN :
          OptionSerializeHeaderMap(present, human)
    \/ \E v \in {None} \cup {Some(c) : c \in 100..999}, human \in BOOLEAN :
          OptionSerializeStatusCode(v, human)
    \/ OptionDeserializeEncoded
    \/ \E name \in OptionAdapters, human \in BOOLEAN,
          method \in {"visit_none", "visit_unit"} :
          OptionDeserializeAbsent(name, human, method)
    \/ \E name \in OptionAdapters, human \in BOOLEAN, node \in OptionNodes :
          OptionDeserializePresent(name, human, node)
    \/ \E name \in OptionAdapters, human \in BOOLEAN,
          method \in {"visit_u16", "visit_u64", "visit_i64"}, val \in OptionInts :
          OptionDeserializeInt(name, human, method, val)
    \/ \E name \in OptionAdapters, human \in BOOLEAN, doc \in OptionDocs :
          OptionDeserializeMap(name, human, doc)
    \/ \E name \in OptionAdapters, human \in BOOLEAN :
          OptionDeserializeStr(name, human)

SpecOption == Init /\ [][NextOption]_vars

(***************************************************************************)
(* Vocabulary of the properties                                            *)
(***************************************************************************)
NamesOf(m) == {m[i].name : i \in DOMAIN m}

\* Every name has the same ordered values in both collections, and neither
\* holds a name the other lacks.
SameCollection(a, b) ==
    /\ NamesOf(a) = NamesOf(b)
    /\ \A name \in NamesOf(a) : HeaderMap_get_all(a, name) = HeaderMap_get_all(b, name)

IsText(v) == \A i \in DOMAIN v : v[i] \in 32..126 \/ v[i] = 9
IsLegalValue(v) == \A i \in DOMAIN v : (v[i] >= 32 /\ v[i] # 127) \/ v[i] = 9
IsLegalName(k) == k # <<>> /\ \A i \in DOMAIN k : IsTchar(k[i])
LowerCase(k) == [i \in DOMAIN k |-> ToLower(k[i])]

\* The values of vals that are valid text, in their order.
TextOnly(vals) == SelectSeqBy(vals, {vals[i] : i \in {j \in DOMAIN vals : IsText(vals[j])}})

StrNodes(vals) == [i \in DOMAIN vals |-> StrNode(vals[i])]
BytesNodes(vals) == [i \in DOMAIN vals |-> BytesNode(vals[i])]

\* A document was written by header_map::serialize.
Encoded == ~foreign /\ pc \in {"encoded", "decoding", "done"}

\* The serialized and decoded document went through one format family.
RoundTripDone == Encoded /\ pc = "done" /\ dhr = hr

\* The nodes written under the name in the encoded map.
EntryNodes(name) == {out.entries[j].val : j \in {i \in DOMAIN out.entries : out.entries[i].key = name}}

(***************************************************************************)
(* C1: header round-trip                                                   *)
(***************************************************************************)
\* C1 as stated: for any header collection, serialize then deserialize in the
\* same format family returns a collection in which every name has exactly
\* the original ordered values, and no other names.
C1_RoundTripAnyCollection ==
    RoundTripDone => result.ok /\ SameCollection(result.val, headers)

\* C1 as amended: the round trip succeeds; in binary every name keeps its
\* ordered values and no name is added; in a human-readable format every name
\* keeps, in order, its values that are valid text, and a name with none left
\* is absent. A collection of text values alone comes back the same.
C1_RoundTrip ==
    RoundTripDone =>
        /\ result.ok
        /\ \A i \in DOMAIN result.val : result.val[i].values # <<>>
        /\ \A name \in NamesOf(headers) \cup NamesOf(result.val) :
              HeaderMap_get_all(result.val, name) =
                  IF hr THEN TextOnly(HeaderMap_get_all(headers, name))
                  ELSE HeaderMap_get_all(headers, name)
        /\ (\A i \in DOMAIN headers : \A j \in DOMAIN headers[i].values :
                IsText(headers[i].values[j]))
           => SameCollection(result.val, headers)

\* A human-readable round trip of a name with two values, one of them not
\* text, beside a single-valued name.
C1_Witness ==
    /\ RoundTripDone /\ hr /\ result.ok
    /\ Len(headers) = 2
    /\ headers[1].values = <<<<120, 233>>, <<121>>>>
    /\ headers[2].values = <<<<120>>>>
    /\ HeaderMap_get_all(result.val, headers[1].name) = <<<<121>>>>

(***************************************************************************)
(* C3: shape of the human-readable encoding                                *)
(***************************************************************************)
\* C3 as stated: in a human-readable format a name with exactly one value,
\* valid text, is written as a bare string of that text, and a name with two
\* or more values as a sequence of strings, one per value, in order.
C3_HumanShapeOnePerValue ==
    (Encoded /\ hr) =>
        \A i \in DOMAIN headers :
            LET vals == headers[i].values IN
            /\ (Len(vals) = 1 /\ IsText(vals[1]))
                  => EntryNodes(headers[i].name) = {StrNode(vals[1])}
            /\ Len(vals) >= 2
                  => \A node \in EntryNodes(headers[i].name) :
                        node.kind = "seq" /\ node.items = StrNodes(vals)

\* C3 as amended: ... and a name with two or more values as a sequence of
\* strings, one per value that is valid text, in the values' order.
C3_HumanShape ==
    (Encoded /\ hr) =>
        \A i \in DOMAIN headers :
            LET vals == headers[i].values IN
            /\ EntryNodes(headers[i].name) # {}
            /\ (Len(vals) = 1 /\ IsText(vals[1]))
                  => EntryNodes(headers[i].name) = {StrNode(vals[1])}
            /\ Len(vals) >= 2
                  => \A node \in EntryNodes(headers[i].name) :
                        node.kind = "seq" /\ node.items = StrNodes(TextOnly(vals))

\* The collection of the test: a single-valued name and a two-valued one.
C3_Witness ==
    /\ Encoded /\ hr
    /\ headers = <<[name |-> <<97>>, values |-> <<<<120>>>>],
                   [name |-> <<98>>, values |-> <<<<121>>, <<120>>>>]>>
    /\ out.entries[1].val = StrNode(<<120>>)
    /\ out.entries[2].val.items = <<StrNode(<<121>>), StrNode(<<120>>)>>

(***************************************************************************)
(* C4: shape and losslessness of the binary encoding                       *)
(***************************************************************************)
\* C4: in a format that is not human-readable every name, whatever its
\* number of values, is written as a sequence of declared length equal to the
\* number of values, holding one byte array per value in order, byte-exact;
\* decoding that document in binary mode returns the original collection.
C4_BinaryShapeAndRoundTrip ==
    /\ (Encoded /\ ~hr) =>
          \A i \in DOMAIN headers :
              LET vals == headers[i].values IN
              EntryNodes(headers[i].name) = {SeqNode(<<Len(vals)>>, BytesNodes(vals))}
    /\ (RoundTripDone /\ ~hr) =>
          result.ok /\ SameCollection(result.val, headers)

\* A binary round trip of a name whose only value is not text.
C4_Witness ==
    /\ RoundTripDone /\ ~hr /\ result.ok
    /\ \E i \in DOMAIN headers : headers[i].values = <<<<120, 233>>>>
    /\ \E i \in DOMAIN headers : Len(headers[i].values) = 2
    /\ SameCollection(result.val, headers)

(***************************************************************************)
(* C5: malformed input                                                     *)
(***************************************************************************)
\* The entry has the shape the mode reads, and an illegal key or value.
Malformed(entry, human) ==
    /\ next_entry(entry, human).ok
    /\ \/ ~IsLegalName(entry.key)
       \/ \E i \in DOMAIN next_entry(entry, human).arr :
              ~IsLegalValue(next_entry(entry, human).arr[i])

\* The illegal key and the illegal values of the entry, as the driver
\* delivered them.
Offenders(entry) ==
    (IF IsLegalName(entry.key) THEN {} ELSE {StrNode(entry.key)})
    \cup (IF entry.val.kind = "str" /\ ~IsLegalValue(entry.val.val)
          THEN {entry.val} ELSE {})
    \cup (IF entry.val.kind = "seq"
          THEN {entry.val.items[i] : i \in {j \in DOMAIN entry.val.items :
                                              ~IsLegalValue(entry.val.items[j].val)}}
          ELSE {})

\* C5: in either mode, once an entry with an illegal key or an illegal value
\* was delivered, deserialize has returned an invalid-value error naming
\* that key or value, and no collection; a collection is returned only when
\* no delivered entry was malformed.
C5_MalformedIsError ==
    \A i \in DOMAIN delivered :
        Malformed(delivered[i], dhr) =>
            /\ pc = "done"
            /\ ~result.ok
            /\ result.err = "invalid_value"
            /\ result.unexp \in Offenders(delivered[i])

\* A bad key arrives after a well-formed entry has filled the map.
C5_Witness ==
    /\ pc = "done" /\ foreign /\ Len(delivered) = 2
    /\ map # <<>>
    /\ delivered[2].key = <<97, 32>>
    /\ Malformed(delivered[2], dhr)
    /\ result = InvalidValue(StrNode(<<97, 32>>))

(***************************************************************************)
(* C8: the shapes the decoder accepts                                      *)
(***************************************************************************)
\* The one-entry document has been read without an error.
FirstEntryRead ==
    /\ foreign /\ Len(delivered) = 1
    /\ pc = "decoding" \/ (pc = "done" /\ result.ok)

\* The node is a sequence of strings or a sequence of byte arrays.
IsStringSeq(node) ==
    node.kind = "seq" /\ \A i \in DOMAIN node.items : node.items[i].kind = "str"
IsBytesSeq(node) ==
    node.kind = "seq" /\ \A i \in DOMAIN node.items : node.items[i].kind = "bytes"

\* C8: in human-readable mode, for a legal key k and a legal text v, the
\* entries k -> "v", k -> ["v"] and k -> [bytes of v] each decode to {k: [v]};
\* a sequence of legal strings or byte arrays v1..vn decodes to k's values
\* v1..vn in order. In binary mode an entry is read only if it is a sequence
\* of byte arrays.
C8_ThreeShapes ==
    (foreign /\ Len(delivered) = 1) =>
        LET key == delivered[1].key
            node == delivered[1].val
        IN
        /\ (dhr /\ IsLegalName(key)) =>
              /\ \A v \in {<<120>>, <<121>>} :
                    node \in {StrNode(v), SeqNode(<<>>, <<StrNode(v)>>),
                              SeqNode(<<>>, <<BytesNode(v)>>)}
                    => FirstEntryRead
                       /\ map = <<[name |-> LowerCase(key), values |-> <<v>>]>>
              /\ ((IsStringSeq(node) \/ IsBytesSeq(node))
                  /\ \A i \in DOMAIN node.items : IsLegalValue(node.items[i].val))
                    => FirstEntryRead
                       /\ HeaderMap_get_all(map, LowerCase(key))
                              = [i \in DOMAIN node.items |-> node.items[i].val]
        /\ ~dhr => ((~result.ok /\ result.err = "shape") <=> ~IsBytesSeq(node))

\* "A" -> [bytes of x] read in human-readable mode.
C8_Witness ==
    /\ foreign /\ dhr /\ pc = "done" /\ result.ok
    /\ delivered = <<[key |-> <<65>>, val |-> SeqNode(<<>>, <<BytesNode(<<120>>)>>)]>>
    /\ result.val = <<[name |-> <<97>>, values |-> <<<<120>>>>]>>

(***************************************************************************)
(* C9: repeated keys in human-readable decode                              *)
(***************************************************************************)
\* The entry is for the name, whatever the letter case of its key.
IsFor(entry, name) == IsLegalName(entry.key) /\ LowerCase(entry.key) = name

\* The last bare-string entry for the name among d, or 0.
LastBare(d, name) ==
    LET bare == {i \in DOMAIN d : IsFor(d[i], name) /\ d[i].val.kind = "str"}
    IN  IF bare = {} THEN 0 ELSE CHOOSE i \in bare : \A j \in bare : j <= i

RECURSIVE SeqElementsFrom(_, _, _)
\* The elements of the sequence entries for the name at positions from..Len(d).
SeqElementsFrom(d, name, from) ==
    IF from > Len(d) THEN <<>>
    ELSE (IF IsFor(d[from], name) /\ d[from].val.kind = "seq"
          THEN [i \in DOMAIN d[from].val.items |-> d[from].val.items[i].val]
          ELSE <<>>)
         \o SeqElementsFrom(d, name, from + 1)

\* C9: in human-readable decode, right after a bare-string entry for a name
\* the name holds that one value only; the values of a name are the value of
\* its last bare-string entry, if any, followed in encounter order by the
\* elements of the sequence entries for the name that came after it.
C9_RepeatedKeys ==
    (foreign /\ dhr /\ (pc = "decoding" \/ (pc = "done" /\ result.ok))) =>
        \A name \in {<<97>>, <<98>>} :
            LET last == LastBare(delivered, name) IN
            /\ (delivered # <<>> /\ last = Len(delivered))
                  => HeaderMap_get_all(map, name) = <<delivered[last].val.val>>
            /\ HeaderMap_get_all(map, name) =
                  (IF last = 0 THEN <<>> ELSE <<delivered[last].val.val>>)
                  \o SeqElementsFrom(delivered, name, last + 1)

\* A sequence for "a", then a bare string for "A", then a sequence for "a".
C9_Witness ==
    /\ foreign /\ dhr /\ pc = "done" /\ result.ok
    /\ Len(delivered) = 3
    /\ delivered[1] = [key |-> <<97>>,
                       val |-> SeqNode(<<>>, <<StrNode(<<120>>), StrNode(<<121>>)>>)]
    /\ delivered[2] = [key |-> <<65>>, val |-> StrNode(<<121>>)]
    /\ delivered[3] = [key |-> <<97>>, val |-> SeqNode(<<>>, <<BytesNode(<<120>>)>>)]
    /\ result.val = <<[name |-> <<97>>, values |-> <<<<121>>, <<120>>>>]>>

(***************************************************************************)
(* C10: text fallback of the human-readable encoding                       *)
(***************************************************************************)
\* C10: a human-readable serialize never fails over a value that is not
\* text: the map is written with an entry for every name; a name holding
\* such a value is written as the sequence of its text values in order,
\* which is empty when its only value is not text.
C10_TextFallback ==
    (Encoded /\ hr) =>
        /\ out.kind = "map"
        /\ \A i \in DOMAIN headers :
              LET vals == headers[i].values IN
              (\E j \in DOMAIN vals : ~IsText(vals[j])) =>
                  /\ EntryNodes(headers[i].name) =
                         {SeqNode(<<>>, StrNodes(TextOnly(vals)))}
                  /\ Len(vals) = 1 =>
                         EntryNodes(headers[i].name) = {SeqNode(<<>>, <<>>)}

\* A name whose only value is not text, beside a name with a text value and
\* one that is not.
C10_Witness ==
    /\ Encoded /\ hr
    /\ headers = <<[name |-> <<97>>, values |-> <<<<120, 233>>>>],
                   [name |-> <<98>>, values |-> <<<<120, 233>>, <<121>>>>]>>
    /\ out.entries[1] = [key |-> <<97>>, val |-> SeqNode(<<>>, <<>>)]
    /\ out.entries[2].val = SeqNode(<<>>, <<StrNode(<<121>>)>>)

(***************************************************************************)
(* C6: status code decode over integers                                    *)
(***************************************************************************)
\* n mod 2^16, as the remainder of the floored division.
Narrowed(n) == n - (n \div 65536) * 65536

\* C6: whatever integer type delivers n, status_code::deserialize succeeds,
\* with the status whose code is n narrowed to 16 bits, exactly when the
\* narrowed value lies in 100..999, and otherwise fails with an
\* invalid-value error carrying the narrowed number; and a status that was
\* serialized decodes to itself from the unsigned 16-bit code written.
C6_StatusDecode ==
    /\ (pc = "status_done" /\ signal.visit \in IntMethods) =>
          LET r == Narrowed(signal.arg) IN
          /\ r \in 0..65535
          /\ result = IF r \in 100..999 THEN Ok(r)
                      ELSE InvalidValue(UnsignedNode(r))
    /\ pc \in {"status_encoded", "status_done"} /\ status # 0 =>
          out = U16Node(status)
    /\ pc = "status_done" /\ status # 0 => result = Ok(status)

\* A negative 64-bit integer whose low 16 bits are 200 decodes to status 200.
C6_Witness ==
    /\ pc = "status_done"
    /\ signal = [visit |-> "visit_i64", arg |-> 200 - 65536]
    /\ result = Ok(200)

(***************************************************************************)
(* C2: optional decode                                                     *)
(***************************************************************************)
\* C2: when the driver's deserialize_option signals none the result is
\* Ok(None); when it signals some, carrying the node, the result is
\* Ok(Some(v)) with v what the inner adapter decodes from that node, and an
\* error only when the inner decoder fails.
C2_OptionalDecode ==
    pc = "opt_done" =>
        /\ signal.visit = "visit_none" => result = Ok(None)
        /\ signal.visit = "visit_some" =>
              result = MapSome(inner_deserialize(adapter, signal.arg, dhr))

(***************************************************************************)
(* C7: optional encode                                                     *)
(***************************************************************************)
\* C7: option::<type>::serialize writes for Some(v) exactly what the inner
\* adapter's serialize writes for v, with no wrapper node, and for None the
\* absence marker and nothing else.
C7_OptionalEncode ==
    (pc \in {"opt_encoded", "opt_done"} /\ out.kind # "unset") =>
        IF optval.some
        THEN /\ adapter = "status_code" => out = U16Node(optval.val)
             /\ adapter = "header_map" =>
                   /\ out.kind = "map"
                   /\ out = header_map_serialize(optval.val, hr)
        ELSE out = NoneNode

\* Some(200) is written as the integer 200.
C7_Witness ==
    /\ pc = "opt_encoded"
    /\ adapter = "status_code"
    /\ optval = Some(200)
    /\ out = U16Node(200)

(***************************************************************************)
(* C11: one map entry per distinct name                                    *)
(***************************************************************************)
RECURSIVE PairNames(_)
\* The names of the collection's (name, value) pairs, one per value, in the
\* order the collection iterates them.
PairNames(m) ==
    IF m = <<>> THEN <<>>
    ELSE [j \in DOMAIN Head(m).values |-> Head(m).name] \o PairNames(Tail(m))

RECURSIVE FirstAppearances(_)
\* The sequence with every repetition of an earlier element removed.
FirstAppearances(names) ==
    IF names = <<>> THEN <<>>
    ELSE LET front == SubSeq(names, 1, Len(names) - 1)
             last == names[Len(names)]
         IN  IF \E i \in DOMAIN front : front[i] = last
             THEN FirstAppearances(front)
             ELSE Append(FirstAppearances(front), last)

\* C11: in both formats header_map::serialize writes a map with exactly one
\* entry for each distinct name of the collection, however many values the
\* name has, the entries in the order in which the names first appear in the
\* collection; an empty collection is written as an empty map, and an empty
\* map decodes to an empty collection.
C11_OneEntryPerName ==
    /\ Encoded =>
          /\ out.kind = "map"
          /\ [i \in DOMAIN out.entries |-> out.entries[i].key]
                 = FirstAppearances(PairNames(headers))
          /\ Len(out.entries) = Cardinality(NamesOf(headers))
          /\ \A i, j \in DOMAIN out.entries :
                 LowerCase(out.entries[i].key) = LowerCase(out.entries[j].key)
                     => i = j
          /\ headers = HeaderMap_new => out = MapNode(<<>>)
    /\ (pc = "done" /\ delivered = <<>> /\ pending = <<>>) =>
          result = Ok(HeaderMap_new)

\* "b" with two values was added before "a": two entries, "b" first.
C11_Witness ==
    /\ Encoded
    /\ Len(headers) = 2
    /\ headers[1].name = <<98>> /\ Len(headers[1].values) = 2
    /\ headers[2].name = <<97>>
    /\ Len(out.entries) = 2
    /\ out.entries[1].key = <<98>>
    /\ out.entries[2].key = <<97>>

====
